---- MODULE Spec2Model ----
(***************************************************************************)
(* A model of the generic RANSAC engine of src/ransac.c: the index sampler *)
(* (fill_random_indices), the single-trial scorer (ransac_trial) and the   *)
(* consensus loop (ransac).                                                *)
(*                                                                         *)
(* Floats are modelled by integers (only their order is used by the        *)
(* engine).  The engine never looks inside a model: it only hands models   *)
(* to the capability functions and copies them, so the model mgen writes   *)
(* in trial k is the opaque value mgen(k).  What macc and mev return is a  *)
(* nondeterministic choice at every call.                                  *)
(***************************************************************************)
EXTENDS Integers, Sequences, FiniteSets

\* ---------------------------------------------------------------- bounds
MaxN == 2          \* data sets of 1..MaxN points
MaxTrials == 2     \* ntrials in 0..MaxTrials
MaxErr == 2        \* mev returns an error in -1..MaxErr, max_error in 1..MaxErr

\* ------------------------------------------------------- program constants
SafeLimit == 10    \* the retry bound of fill_random_indices
datadim == 2       \* fields per data point (the "line" case)

\* mgen(model, x, usr) in trial k: the model it writes
mgen(k) == [by |-> "mgen", trial |-> k]
\* a model buffer that was never written (best_model, the caller's out_model)
NoModel == [by |-> "nobody", trial |-> 0]
\* the content of a buffer that is read before it was written: anything
Garbage == [by |-> "garbage", trial |-> 0]
Models == {mgen(k) : k \in 0 .. MaxTrials - 1} \cup {Garbage}
\* a mask buffer that was never written (xmalloc'ed, or the caller's own)
NoMask == << >>

VARIABLES
    n, nfit, ntrials, min_inliers, max_error, macc,   \* the arguments of ransac
    pc,                \* position in the code
    i,                 \* loop variable of ransac (trials completed so far)
    safecount,         \* fill_random_indices: batches drawn in this call
    indices,           \* int indices[nfit]
    x,                 \* float x[nfit*datadim]
    model,             \* float model[modeldim]
    tmp_mask,          \* the buffer ransac_trial writes (tmp_mask in ransac)
    ti, cx,            \* ransac_trial: its loop variable i and its counter
    best_ninliers, best_model, best_mask,
    out_model, out_mask, ret,    \* what the caller gets back
    log,               \* history: one record per completed trial
    errs,              \* history: the errors mev returned in this ransac_trial
    calls,             \* history: how often each function was called
    drawn              \* history: the batch the sampler returned, as drawn

vars == << n, nfit, ntrials, min_inliers, max_error, macc, pc, i, safecount,
           indices, x, model, tmp_mask, ti, cx, best_ninliers, best_model,
           best_mask, out_model, out_mask, ret, log, errs, calls, drawn >>

args == << n, nfit, ntrials, min_inliers, max_error, macc >>
best == << best_ninliers, best_model, best_mask >>
outs == << out_model, out_mask, ret >>

\* no call yet: of fill_random_indices, mgen, ransac_trial and mev, and of
\* macc with the result false (rej), of mev with a result below max_error
\* (low) and with a negative result (neg)
NoCalls == [sample |-> 0, gen |-> 0, rej |-> 0, trial |-> 0, mev |-> 0,
            low |-> 0, neg |-> 0]

Errors == -1 .. MaxErr
Masks(k) == [0 .. k-1 -> BOOLEAN]
Count(m) == Cardinality({j \in DOMAIN m : m[j]})

\* the data set: point p has the fields 10*p, 10*p+1, ...
data == [q \in 0 .. datadim*MaxN - 1 |-> 10 * (q \div datadim) + (q % datadim)]

\* ------------------------------------------------------------- the sampler
\* random_index(a, b): a + rand() % (b - a), any value of [a, b)
random_index(a, b) == a .. b-1

RECURSIVE qsort(_)
Insert(v, s) ==
    LET k == Cardinality({j \in 1..Len(s) : s[j] < v})
    IN  SubSeq(s, 1, k) \o <<v>> \o SubSeq(s, k+1, Len(s))
\* qsort(t, n, sizeof*t, compare_ints): t in increasing order
qsort(t) == IF t = << >> THEN << >> ELSE Insert(Head(t), qsort(Tail(t)))

\* a scan that starts one entry too late
are_different_late(t) ==
    LET s == qsort(t)
    IN  [sorted |-> s, result |-> \A j \in 3..Len(s) : s[j-1] # s[j]]

\* are_different(t, n): sorts t in place, then scans for equal neighbours
are_different(t) ==
    LET s == qsort(t)
    IN  [sorted |-> s, result |-> \A j \in 2..Len(s) : s[j-1] # s[j]]

\* a loop that goes on for as long as the batch has a repeated index
LoopAgainUnbounded(sc, t) == ~are_different(t).result

\* the condition of the do-while loop of fill_random_indices, evaluated
\* after safecount was incremented to sc; && does not call are_different
\* when sc has reached the limit
LoopAgain(sc, t) == sc < SafeLimit /\ ~are_different(t).result
\* a check that leaves the array as it was drawn
AfterCondUnsorted(sc, t) == t

\* the array after the loop condition was evaluated
AfterCond(sc, t) == IF sc < SafeLimit THEN are_different(t).sorted ELSE t
\* the test after the loop
Exhausted(sc) == sc = SafeLimit
\* fail("could not generate any model"): prints the message and ends the
\* process; it does not return to fill_random_indices
fail == "failed"

\* one pass of the do-while loop, with the test that follows the loop
DrawBatch ==
    /\ pc = "sample"
    /\ \E t \in [1..nfit -> random_index(0, n)] :
         LET sc == safecount + 1 IN
         /\ safecount' = sc
         /\ indices' = AfterCond(sc, t)
         /\ IF LoopAgain(sc, t)
              THEN pc' = "sample"
              ELSE IF Exhausted(sc) THEN pc' = fail ELSE pc' = "gen"
         /\ drawn' = IF ~LoopAgain(sc, t) /\ ~Exhausted(sc) THEN t ELSE << >>
    /\ calls' = IF safecount = 0 THEN [calls EXCEPT !.sample = @ + 1] ELSE calls
    /\ UNCHANGED << args, i, x, model, tmp_mask, ti, cx, best, outs, log, errs >>

\* ----------------------------------------------------------- ransac_trial
\* A mask buffer is a function on the entries written so far: NoMask has
\* none, a buffer ransac_trial has run over has all of 0..n-1.
\* a test that lets an error equal to the threshold pass
InlierTestLe(e, maxerr) == e <= maxerr

\* out_mask[i] = e < max_error
InlierTest(e, maxerr) == e < maxerr

\* a loop body without the assertion (it lets a negative error through)
TrialIterNoAssert(e) ==
    /\ ti < n
    /\ tmp_mask' = [j \in (DOMAIN tmp_mask) \cup {ti} |->
          IF j = ti THEN InlierTest(e, max_error) ELSE tmp_mask[j]]
    /\ cx' = IF InlierTest(e, max_error) THEN cx + 1 ELSE cx
    /\ ti' = ti + 1
    /\ pc' = pc

\* a loop body that counts every point, inlier or not
TrialIterCountsAll(e) ==
    /\ ti < n
    /\ IF e >= 0
         THEN /\ tmp_mask' = [j \in (DOMAIN tmp_mask) \cup {ti} |->
                    IF j = ti THEN InlierTest(e, max_error) ELSE tmp_mask[j]]
              /\ cx' = cx + 1
              /\ ti' = ti + 1
              /\ pc' = pc
         ELSE /\ pc' = "aborted"
              /\ UNCHANGED << tmp_mask, cx, ti >>

\* the body of the loop of ransac_trial for point ti, mev having returned e
TrialIter(e) ==
    /\ ti < n
    /\ IF e >= 0
         THEN /\ tmp_mask' = [j \in (DOMAIN tmp_mask) \cup {ti} |->
                    IF j = ti THEN InlierTest(e, max_error) ELSE tmp_mask[j]]
              /\ cx' = IF InlierTest(e, max_error) THEN cx + 1 ELSE cx
              /\ ti' = ti + 1
              /\ pc' = pc
         ELSE /\ pc' = "aborted"                 \* assert(e >= 0) fails
              /\ UNCHANGED << tmp_mask, cx, ti >>

\* ------------------------------------------------------------------ ransac
\* x[datadim*j + k] = data[datadim*indices[j] + k]
Materialize(idx) ==
    [q \in 0 .. datadim*Len(idx) - 1 |->
        data[datadim * idx[(q \div datadim) + 1] + (q % datadim)]]

\* a loop that stops as soon as the record reaches min_inliers
NextTrialEarlyStop ==
    /\ i' = i + 1
    /\ pc' = IF i + 1 < ntrials /\ best_ninliers < min_inliers
               THEN "sample" ELSE "ret"
    /\ safecount' = 0
    /\ indices' = << >>
    /\ x' = << >>
    /\ model' = NoModel

\* the end of one pass of the trial loop: the block's arrays go out of
\* scope, i++ and the loop test; the next pass starts in the sampler
NextTrial ==
    /\ i' = i + 1
    /\ pc' = IF i + 1 < ntrials THEN "sample" ELSE "ret"
    /\ safecount' = 0
    /\ indices' = << >>
    /\ x' = << >>
    /\ model' = NoModel

\* the sampler has returned: build x and call mgen
Generate ==
    /\ pc = "gen"
    /\ x' = Materialize(indices)
    /\ model' = mgen(i)
    /\ pc' = "acc"
    /\ calls' = [calls EXCEPT !.gen = @ + 1]
    /\ UNCHANGED << args, i, safecount, indices, tmp_mask, ti, cx, best, outs,
                    log, errs, drawn >>

\* a test that never asks macc
RejectsNever(has_macc, ok) == FALSE

\* if (macc && !macc(model, usr)), ok being what macc returns
Rejects(has_macc, ok) == has_macc /\ ~ok

\* the test of the model: continue, or go on to ransac_trial
Accept ==
    /\ pc = "acc"
    /\ \E ok \in BOOLEAN :
         /\ macc \/ ok
         /\ IF Rejects(macc, ok)
              THEN \* continue
                   /\ NextTrial
                   /\ log' = Append(log, [acc |-> FALSE, model |-> model,
                                          cnt |-> 0, mask |-> NoMask,
                                          best |-> best_ninliers])
                   /\ UNCHANGED << ti, cx >>
              ELSE \* the call of ransac_trial: int cx = 0; i = 0
                   /\ pc' = "score"
                   /\ ti' = 0
                   /\ cx' = 0
                   /\ UNCHANGED << i, safecount, indices, x, model, log >>
         /\ calls' = [calls EXCEPT
                        !.rej = IF macc /\ ~ok THEN @ + 1 ELSE @,
                        !.trial = IF Rejects(macc, ok) THEN @ ELSE @ + 1]
    /\ drawn' = << >>
    /\ UNCHANGED << args, tmp_mask, best, outs, errs >>

\* what the calls of mev count up to once one more has returned e
MevCalled(e) ==
    [calls EXCEPT !.mev = @ + 1,
                  !.low = IF e < max_error THEN @ + 1 ELSE @,
                  !.neg = IF e < 0 THEN @ + 1 ELSE @]

\* one pass of the loop of ransac_trial, called from ransac
ScoreStep ==
    /\ pc = "score"
    /\ \E e \in Errors : TrialIter(e) /\ calls' = MevCalled(e)
    /\ UNCHANGED << args, i, safecount, indices, x, model, best, outs, log, errs,
                    drawn >>

\* a record that every scored trial replaces
ImprovesAlways(n_inliers, bestn) == TRUE

\* a record that a trial with the same count replaces too
ImprovesOrTies(n_inliers, bestn) == n_inliers >= bestn

\* if (n_inliers > best_ninliers)
Improves(n_inliers, bestn) == n_inliers > bestn

\* ransac_trial returns cx; ransac compares it to the best so far
Update ==
    /\ pc = "score"
    /\ ti = n
    /\ LET n_inliers == cx
           better == Improves(n_inliers, best_ninliers) IN
       /\ best_ninliers' = IF better THEN n_inliers ELSE best_ninliers
       /\ best_model' = IF better THEN model ELSE best_model
       /\ best_mask' = IF better THEN tmp_mask ELSE best_mask
       /\ log' = Append(log, [acc |-> TRUE, model |-> model, cnt |-> n_inliers,
                              mask |-> tmp_mask,
                              best |-> best_ninliers'])
    /\ NextTrial
    /\ UNCHANGED << args, tmp_mask, ti, cx, outs, errs, calls, drawn >>

\* a test that only asks for some inlier
SucceedsPositive(bestn, mininl) == bestn > 0

\* if (best_ninliers >= min_inliers)
Succeeds(bestn, mininl) == bestn >= mininl

\* what a read of a buffer gives: its content, or anything when the buffer
\* was never written
ReadModel(b) == IF b = NoModel THEN Models ELSE {b}
ReadMask(b) == IF b = NoMask THEN Masks(n) ELSE {b}

\* the code after the trial loop; the caller passes out_model and out_mask,
\* either of which may be NULL
Return ==
    /\ pc = "ret"
    /\ pc' = "done"
    /\ IF Succeeds(best_ninliers, min_inliers)
         THEN /\ \E has_model \in BOOLEAN :
                   IF has_model THEN out_model' \in ReadModel(best_model)
                                ELSE out_model' = out_model
              /\ \E has_mask \in BOOLEAN :
                   IF has_mask THEN out_mask' \in ReadMask(best_mask)
                               ELSE out_mask' = out_mask
              /\ ret' = best_ninliers
         ELSE /\ ret' = 0
              /\ UNCHANGED << out_model, out_mask >>
    /\ UNCHANGED << args, i, safecount, indices, x, model, tmp_mask, ti, cx,
                    best, log, errs, calls, drawn >>

Init ==
    /\ n \in 1 .. MaxN
    /\ nfit \in 1 .. n + 1
    /\ ntrials \in 0 .. MaxTrials
    /\ min_inliers \in 0 .. n + 1
    /\ max_error \in 1 .. MaxErr
    /\ macc \in BOOLEAN
    /\ pc = IF 0 < ntrials THEN "sample" ELSE "ret"
    /\ i = 0
    /\ safecount = 0
    /\ indices = << >>
    /\ x = << >>
    /\ model = NoModel
    /\ tmp_mask = NoMask
    /\ ti = 0
    /\ cx = 0
    /\ best_ninliers = 0
    /\ best_model = NoModel
    /\ best_mask = NoMask
    /\ out_model = NoModel
    /\ out_mask = NoMask
    /\ ret = -1
    /\ log = << >>
    /\ errs = << >>
    /\ calls = NoCalls
    /\ drawn = << >>

Next == DrawBatch \/ Generate \/ Accept \/ ScoreStep \/ Update \/ Return

Spec == Init /\ [][Next]_vars

\* ------------------------------------ fill_random_indices called on its own
\* One call of the sampler, for every n and every nfit up to n + 2.  The
\* program is sequential: the loop takes its next pass whenever it has one.
SamplerInit ==
    /\ n \in 1 .. MaxN
    /\ nfit \in 1 .. n + 2
    /\ pc = "sample"
    /\ safecount = 0
    /\ indices = << >>
    /\ ntrials = 1 /\ min_inliers = 0 /\ max_error = 1 /\ macc = FALSE
    /\ i = 0 /\ x = << >> /\ model = NoModel /\ tmp_mask = NoMask
    /\ ti = 0 /\ cx = 0 /\ errs = << >> /\ ret = -1
    /\ best_ninliers = 0 /\ best_model = NoModel /\ best_mask = NoMask
    /\ out_model = NoModel /\ out_mask = NoMask /\ log = << >>
    /\ calls = NoCalls /\ drawn = << >>

SamplerSpec == SamplerInit /\ [][DrawBatch]_vars /\ WF_vars(DrawBatch)

\* ------------------------------------------- ransac_trial called on its own
\* The single-trial scorer as an entry point: the caller gives a model,
\* a threshold and a mask buffer with any content.
TrialInit ==
    /\ n \in 1 .. MaxN
    /\ max_error \in 1 .. MaxErr
    /\ tmp_mask \in {NoMask} \cup Masks(n)
    /\ model = mgen(0)
    /\ pc = "trial"
    /\ ti = 0
    /\ cx = 0
    /\ errs = << >>
    /\ ret = -1
    /\ nfit = 1 /\ ntrials = 0 /\ min_inliers = 0 /\ macc = FALSE
    /\ i = 0 /\ safecount = 0 /\ indices = << >> /\ x = << >>
    /\ best_ninliers = 0 /\ best_model = NoModel /\ best_mask = NoMask
    /\ out_model = NoModel /\ out_mask = NoMask /\ log = << >>
    /\ calls = NoCalls /\ drawn = << >>

\* one pass of the loop of ransac_trial; errs keeps what mev returned
TrialStep ==
    /\ pc = "trial"
    /\ \E e \in Errors : /\ TrialIter(e)
                         /\ errs' = Append(errs, e)
                         /\ calls' = MevCalled(e)
    /\ UNCHANGED << args, i, safecount, indices, x, model, best, out_model,
                    out_mask, ret, log, drawn >>

\* return cx
TrialReturn ==
    /\ pc = "trial"
    /\ ti = n
    /\ pc' = "returned"
    /\ ret' = cx
    /\ UNCHANGED << args, i, safecount, indices, x, model, tmp_mask, ti, cx,
                    best, out_model, out_mask, log, errs, calls, drawn >>

TrialNext == TrialStep \/ TrialReturn

TrialSpec == TrialInit /\ [][TrialNext]_vars

\* ------------------------------------------------------------------ claims
PairwiseDistinct(t) == \A a, b \in DOMAIN t : a # b => t[a] # t[b]

\* C1: whenever the sampler has returned (nfit <= n), the nfit indices it
\* hands back are pairwise distinct; mgen is called (from pc = "gen") only
\* on a sample built from such an index set.
C1_Distinctness ==
    pc \in {"gen", "acc", "score"} =>
        /\ nfit <= n
        /\ Len(indices) = nfit
        /\ PairwiseDistinct(indices)
        /\ \A a \in 1 .. nfit : indices[a] \in 0 .. n-1

\* C1 witness: the sampler returns two indices after a batch with a
\* repeated index was redrawn
C1_Witness == pc = "gen" /\ nfit = 2 /\ n = 2 /\ safecount = 3

\* C2: with nfit > n the sampler never returns an index set and never
\* loops forever: while it is in its loop it has drawn fewer than SafeLimit
\* batches and can draw the next one, every pass counts one more batch and
\* leads back into the loop or to the fatal failure, which comes with the
\* batch number SafeLimit.
C2_RetryBound ==
    /\ [](nfit > n =>
            /\ pc \in {"sample", fail}
            /\ pc = "sample" => safecount < SafeLimit /\ ENABLED DrawBatch
            /\ pc = fail => safecount = SafeLimit)
    /\ [][nfit > n => safecount' = safecount + 1]_vars

\* C2 witness: the sampler has failed with nfit > n (n = 2, nfit = 4)
C2_Witness == pc = "failed" /\ n = 2 /\ nfit = 4 /\ safecount = SafeLimit

\* C3 (as claimed): the sampler fails only if none of the batches it drew,
\* the last one included, is pairwise distinct.  At the failure, indices
\* holds the last batch drawn.
C3_FailsOnlyWithoutDistinctBatch ==
    pc = "failed" => ~PairwiseDistinct(indices)

\* ---- the history of the trials
Accepted(k) == {j \in 1 .. k : log[j].acc}
Max(S) == CHOOSE v \in S : \A w \in S : w <= v
\* the largest inlier count of the accepted trials among 1..k, 0 if none
MaxAccepted(k) == Max({0} \cup {log[j].cnt : j \in Accepted(k)})
\* the first accepted trial that reaches the count c
Earliest(c) == CHOOSE j \in Accepted(Len(log)) :
                  /\ log[j].cnt = c
                  /\ \A l \in Accepted(Len(log)) : log[l].cnt = c => j <= l

\* C4: after each trial k, the best count is at least what it was after
\* trial k-1 and is the largest count of the accepted trials 1..k (0 if
\* there is none).
C4_MonotonicBest ==
    /\ \A k \in 1 .. Len(log) :
          /\ log[k].best >= (IF k = 1 THEN 0 ELSE log[k-1].best)
          /\ log[k].best = MaxAccepted(k)
    /\ best_ninliers = (IF log = << >> THEN 0 ELSE log[Len(log)].best)

\* C4 witness: an accepted trial with fewer inliers follows a better one
C4_Witness ==
    /\ Len(log) = 2
    /\ log[1].acc /\ log[2].acc
    /\ log[1].cnt = 2 /\ log[2].cnt = 1

\* C5: when ransac_trial returns, the mask is true exactly at the points
\* whose error was strictly below max_error, every point has its entry,
\* and the count returned is the number of true entries.
C5_MaskCount ==
    pc = "returned" =>
        /\ DOMAIN tmp_mask = 0 .. n-1
        /\ \A j \in 0 .. n-1 : tmp_mask[j] = (errs[j+1] < max_error)
        /\ ret = Count(tmp_mask)
        /\ ret = Cardinality({j \in 0 .. n-1 : errs[j+1] < max_error})

\* C5 witness: a call returns with one error equal to the threshold and
\* one below it
C5_Witness ==
    /\ pc = "returned" /\ n = 2
    /\ errs[1] = max_error /\ errs[2] < max_error

\* C6: when the best count is below min_inliers, ransac returns 0 and
\* writes neither out_model nor out_mask, also when the count is positive.
C6_ThresholdGate ==
    (pc = "done" /\ best_ninliers < min_inliers) =>
        /\ ret = 0
        /\ out_model = NoModel
        /\ out_mask = NoMask

\* C6 witness: ransac has returned with 0 < best_ninliers < min_inliers
C6_Witness == pc = "done" /\ 0 < best_ninliers /\ best_ninliers < min_inliers

\* C7 (as claimed): when, after ntrials >= 1 trials, the best count is at
\* least min_inliers, ransac returns it, and the model and the mask it
\* writes are those of one accepted trial with that count.
C7_SuccessResult ==
    (pc = "done" /\ ntrials > 0 /\ best_ninliers >= min_inliers) =>
        /\ ret = best_ninliers
        /\ (out_model # NoModel \/ out_mask # NoMask) =>
             \E k \in Accepted(Len(log)) :
                /\ log[k].cnt = ret
                /\ out_model \in {NoModel, log[k].model}
                /\ out_mask \in {NoMask, log[k].mask}

\* C8 (as claimed): ransac, run with ntrials >= 1, writes out_model or
\* out_mask only when it returns a count > 0; when it returns 0 neither is
\* written.
C8_TwoOutcomes ==
    (pc = "done" /\ ntrials > 0) =>
        \/ ret > 0
        \/ ret = 0 /\ out_model = NoModel /\ out_mask = NoMask

C10_AlwaysRejected ==
    (macc /\ ntrials > 0 /\ Accepted(Len(log)) = {}
          /\ pc \notin {"score", "aborted"}) =>
        /\ best_ninliers = 0 /\ best_model = NoModel /\ best_mask = NoMask
        /\ tmp_mask = NoMask
        /\ pc = "done" => ret = 0 /\ out_model = NoModel /\ out_mask = NoMask

\* C11: when no error mev returns is below max_error (none is negative
\* either), scoring never ends the run, and a ransac that returns has run
\* all ntrials trials and returns 0, whatever min_inliers is.
C11_AllOutliers ==
    calls.low = 0 =>
        /\ pc # "aborted"
        /\ best_ninliers = 0
        /\ pc = "done" => ret = 0 /\ Len(log) = ntrials

\* C11 witness: ransac has returned after two scored trials in which every
\* error was at or above the threshold, with min_inliers = 0
C11_Witness ==
    /\ pc = "done" /\ calls.low = 0 /\ min_inliers = 0
    /\ calls.trial = 2 /\ calls.mev = 2 * n

\* C12: once mev has returned a negative error the run is over at that
\* point: no further call of mev, no count returned by ransac_trial, the
\* record is not updated with that trial, and ransac returns nothing.
C12_NegativeFatal ==
    /\ calls.neg > 0 =>
          /\ pc = "aborted"
          /\ calls.neg = 1
          /\ calls.mev = n * (calls.trial - 1) + ti + 1
          /\ Len(log) = i
          /\ best_ninliers = MaxAccepted(Len(log))
          /\ ret = -1 /\ out_model = NoModel /\ out_mask = NoMask
    /\ pc = "aborted" => calls.neg = 1

\* C12 witness: the second point of the second trial has a negative error,
\* the first trial having set the record
C12_Witness ==
    /\ pc = "aborted" /\ calls.neg = 1
    /\ i = 1 /\ ti = 1 /\ best_ninliers > 0

\* C13: a ransac that returns has called the sampler and mgen ntrials
\* times each and ransac_trial once per accepted trial, whatever the
\* outcomes of the trials were.
C13_FixedBudget ==
    /\ calls.sample <= ntrials
    /\ pc = "done" =>
          /\ calls.sample = ntrials
          /\ calls.gen = ntrials
          /\ Len(log) = ntrials
          /\ calls.trial = Cardinality(Accepted(Len(log)))
          /\ calls.trial + calls.rej = ntrials

\* C13 witness: ransac has returned after a first trial that reached
\* min_inliers and a second one that macc rejected
C13_Witness ==
    /\ pc = "done" /\ ntrials = 2 /\ min_inliers > 0
    /\ log[1].acc /\ log[1].cnt >= min_inliers
    /\ ~log[2].acc

\* C14: a step in which macc returns false ends the trial: mev is not
\* called, ransac_trial is not called, and the record and the scratch mask
\* are what they were; without macc nothing is rejected and every
\* generated model is handed to ransac_trial.
C14_RejectedUnchanged ==
    /\ [][calls'.rej # calls.rej =>
            /\ macc
            /\ i' = i + 1 /\ pc' \in {"sample", "ret"}
            /\ best' = best /\ tmp_mask' = tmp_mask
            /\ calls'.mev = calls.mev /\ calls'.trial = calls.trial]_vars
    /\ [](~macc => /\ calls.rej = 0
                   /\ pc # "acc" => calls.trial = calls.gen)

\* C14 witness: macc has rejected the model of the second trial, the first
\* trial having set the record
C14_Witness ==
    /\ calls.rej = 1 /\ Len(log) = 2 /\ ~log[2].acc
    /\ log[1].acc /\ best_ninliers > 0

\* C15: the indices the sampler hands back are in [0, n) and in strictly
\* increasing order, they are the indices drawn, and the buffer mgen gets
\* holds field k of point indices[j] at position datadim*j + k.
C15_Materialization ==
    /\ pc \in {"gen", "acc", "score"} =>
          /\ \A a \in 1 .. nfit : indices[a] \in 0 .. n-1
          /\ \A a \in 2 .. nfit : indices[a-1] < indices[a]
    /\ pc \in {"gen", "acc"} =>
          /\ Len(drawn) = nfit
          /\ {drawn[a] : a \in 1 .. nfit} = {indices[a] : a \in 1 .. nfit}
    /\ pc \in {"acc", "score"} =>
          /\ DOMAIN x = 0 .. datadim*nfit - 1
          /\ \A j \in 0 .. nfit-1 : \A k \in 0 .. datadim-1 :
                x[datadim*j + k] = data[datadim*indices[j+1] + k]

\* C15 witness: mgen has got the fields of the points 0 and 1, in this
\* order, after the sampler had drawn 1 and then 0
C15_Witness ==
    /\ pc = "acc" /\ drawn = <<1, 0>> /\ indices = <<0, 1>>
    /\ x[0] = 0 /\ x[1] = 1 /\ x[2] = 10 /\ x[3] = 11

\* C16: a record with a count > 0 holds the model and the complete mask of
\* one accepted trial, and the count is the number of true entries of that
\* mask; a record with the count 0 was never written.
C16_RecordConsistency ==
    /\ best_ninliers > 0 =>
          /\ DOMAIN best_mask = 0 .. n-1
          /\ best_ninliers = Count(best_mask)
          /\ \E k \in Accepted(Len(log)) :
                /\ best_model = log[k].model
                /\ best_mask = log[k].mask
                /\ best_ninliers = log[k].cnt
    /\ best_ninliers = 0 => best_model = NoModel /\ best_mask = NoMask

\* C16 witness: the record is that of the first trial while the scratch
\* mask holds the different mask of a second, worse trial
C16_Witness ==
    /\ Len(log) = 2 /\ log[1].acc /\ log[2].acc
    /\ log[2].cnt < log[1].cnt
    /\ tmp_mask = log[2].mask /\ tmp_mask # best_mask
    /\ best_mask = log[1].mask

\* ---- the steps ransac has left at most
TrialCost == SafeLimit + n + 3
Rank ==
    LET later == (ntrials - i - 1) * TrialCost + 1 IN
    CASE pc = "sample" -> later + (SafeLimit - safecount) + n + 3
      [] pc = "gen"    -> later + n + 3
      [] pc = "acc"    -> later + n + 2
      [] pc = "score"  -> later + (n - ti) + 1
      [] pc = "ret"    -> 1
      [] OTHER         -> 0

\* C17: ransac ends: every step takes it closer to its end by a measure
\* that is never negative, a run that has not ended (returned, or failed
\* fatally) has a next step (in the sampler: there is a batch to draw),
\* and there are at most ntrials trials, at most SafeLimit batches in a
\* trial and n calls of mev in a scored trial.
C17_Termination ==
    /\ [][Rank' < Rank]_vars
    /\ [](/\ Rank >= 0
          /\ i <= ntrials /\ calls.sample <= ntrials
          /\ safecount <= SafeLimit
          /\ pc = "sample" => safecount < SafeLimit
          /\ ti <= n
          /\ pc \in {"sample", "gen", "acc", "ret", "done"} =>
                calls.mev = n * calls.trial
          /\ pc = "sample" => [1..nfit -> random_index(0, n)] # {}
          /\ pc = "gen" => ENABLED Generate
          /\ pc = "acc" => ENABLED Accept
          /\ pc = "score" => ENABLED (ScoreStep \/ Update)
          /\ pc = "ret" => ENABLED Return)

\* C17 witness: ransac has returned after two scored trials
C17_Witness ==
    /\ pc = "done" /\ ntrials = 2 /\ n = 2
    /\ calls.trial = 2 /\ calls.mev = 4

====
